---- MODULE Spec2Model ----
(***************************************************************************)
(* Irrigation controller: sensor classifiers (analog_sensors.h), the pump  *)
(* driver (pump_driver.h), the rule cascade of ActionDecider and the main  *)
(* loop of the sketch (action_decider.h and the .ino part below it).       *)
(***************************************************************************)
EXTENDS Integers, Sequences, FiniteSets, TLC

VARIABLES
    sensor,     \* the sensor whose get_state() is exercised: "none","sm","wl","wd"
    value,      \* get_state local: the raw value read_raw() gave
    state,      \* the SensorStateLevel that get_state() returned
    sm_state,   \* DecideAction local sm_state
    ph_state,   \* DecideAction local ph_state
    wl_state,   \* DecideAction local wl_state
    wd_state,   \* DecideAction local wd_state
    decision,   \* value returned by the last DecideAction
    on,         \* PumpDriver::on
    pin_level,  \* level last written to the pump pin by digitalWrite
    cmds,       \* log of the commands issued to the PumpDriver
    was_on,     \* is_on() at the moment the last DecideAction was entered
    last_call,  \* last ActionDecider method that returned
    pump,       \* loop() local: bool pump = ad.DecidePump()
    pc,         \* position of loop()
    seen        \* an earlier decision kept for comparison, or NoRecord

vars == <<sensor, value, state, sm_state, ph_state, wl_state, wd_state,
          decision, on, pin_level, cmds, was_on, last_call, pump, pc, seen>>

-----------------------------------------------------------------------------
(* Bounds of the model *)
MaxRaw == 2047
MaxCmds == 6

-----------------------------------------------------------------------------
(* states.h: enum SensorStateLevel *)
TOO_LOW == 0
DANGER_LOW == 1
OK == 2
DANGER_HIGH == 3
TOO_HIGH == 4
INVALID_STATE == 2147483647

SensorStateLevel == {TOO_LOW, DANGER_LOW, OK, DANGER_HIGH, TOO_HIGH, INVALID_STATE}

(* SoilMoistureSensor thresholds *)
SM_THRESH_TOO_WET == 350
SM_THRESH_DANGEROUSLY_WET == 450
SM_THRESH_OK == 550
SM_THRESH_DANGEROUSLY_DRY == 650
SM_THRESH_TOO_DRY == 1023

(* WaterLevelSensor thresholds *)
WL_THRESH_OK == 1024
WL_THRESH_DANGER_LOW == 450
WL_THRESH_DRY == 200

(* WaterDetectionSensor thresholds *)
WD_THRESH_ON == 1024
WD_THRESH_OFF == 50

-----------------------------------------------------------------------------
(* Classifiers: get_state() as a function of the raw value read_raw() gave *)

SoilMoisture_get_state_NoInvalid(v) ==
    IF v <= SM_THRESH_TOO_WET THEN TOO_HIGH
    ELSE IF v <= SM_THRESH_DANGEROUSLY_WET THEN DANGER_HIGH
    ELSE IF v <= SM_THRESH_OK THEN OK
    ELSE IF v <= SM_THRESH_DANGEROUSLY_DRY THEN DANGER_LOW
    ELSE TOO_LOW

SoilMoisture_get_state(v) ==
    IF v <= SM_THRESH_TOO_WET THEN TOO_HIGH
    ELSE IF v <= SM_THRESH_DANGEROUSLY_WET THEN DANGER_HIGH
    ELSE IF v <= SM_THRESH_OK THEN OK
    ELSE IF v <= SM_THRESH_DANGEROUSLY_DRY THEN DANGER_LOW
    ELSE IF v <= SM_THRESH_TOO_DRY THEN TOO_LOW
    ELSE INVALID_STATE

WaterLevel_get_state_Overflow(v) ==
    IF v <= WL_THRESH_DRY THEN TOO_LOW
    ELSE IF v <= WL_THRESH_DANGER_LOW THEN DANGER_LOW
    ELSE IF v <= WL_THRESH_OK THEN OK
    ELSE TOO_HIGH

WaterLevel_get_state(v) ==
    IF v <= WL_THRESH_DRY THEN TOO_LOW
    ELSE IF v <= WL_THRESH_DANGER_LOW THEN DANGER_LOW
    ELSE IF v <= WL_THRESH_OK THEN OK
    ELSE INVALID_STATE

WaterDetection_get_state(v) ==
    IF v <= WD_THRESH_OFF THEN OK
    ELSE IF v <= WD_THRESH_ON THEN TOO_HIGH
    ELSE INVALID_STATE

(* Raw values the decision cycles are fed with: every threshold of the     *)
(* sensor's ladder (one value per level) and the value above the last one. *)
SoilSamples ==
    {SM_THRESH_TOO_WET, SM_THRESH_DANGEROUSLY_WET, SM_THRESH_OK,
     SM_THRESH_DANGEROUSLY_DRY, SM_THRESH_TOO_DRY, SM_THRESH_TOO_DRY + 1}

LevelSamples ==
    {WL_THRESH_DRY, WL_THRESH_DANGER_LOW, WL_THRESH_OK, WL_THRESH_OK + 1}

DetectionSamples ==
    {WD_THRESH_OFF, WD_THRESH_ON, WD_THRESH_ON + 1}

-----------------------------------------------------------------------------
(* PumpDriver *)

turn_on_Toggle ==
    /\ on' = ~on
    /\ pin_level' = "HIGH"

turn_on ==
    /\ on' = TRUE
    /\ pin_level' = "HIGH"

turn_off ==
    /\ on' = FALSE
    /\ pin_level' = "LOW"

is_on == on

-----------------------------------------------------------------------------
(* ActionDecider::DecideAction, the rule cascade over its four locals *)

AnyInvalid_NoLevel(sm, ph, wl, wd) ==
    \/ sm = INVALID_STATE
    \/ ph = INVALID_STATE
    \/ wd = INVALID_STATE

\* Step 1, first test: any of the sensors reports an invalid state
AnyInvalid(sm, ph, wl, wd) ==
    \/ sm = INVALID_STATE
    \/ ph = INVALID_STATE
    \/ wl = INVALID_STATE
    \/ wd = INVALID_STATE

TankEmpty_DangerLow(wl) == wl = DANGER_LOW

\* Step 1, second test: there is no more water in the tank
TankEmpty(wl) == wl = TOO_LOW

\* Step 2: PH out of range
PhOutOfRange(ph) == ph = TOO_LOW \/ ph = TOO_HIGH

StandardCase_AnySoil(sm, wl, wd) ==
    /\ wd = OK
    /\ wl >= OK /\ wl <= TOO_HIGH

\* Step 3: standard case
StandardCase(sm, wl, wd) ==
    /\ wd = OK
    /\ wl >= OK /\ wl <= TOO_HIGH
    /\ sm <= DANGER_HIGH

SpecialCase1_DryPotOnly(sm, wd) ==
    /\ wd = OK
    /\ sm = TOO_LOW

\* Step 4: special case 1
SpecialCase1(sm, wd) ==
    /\ (wd = OK \/ wd = TOO_HIGH)
    /\ sm = TOO_LOW

AllOtherCases_KeepPump == on

\* All other cases, turn pump off
AllOtherCases == FALSE

DecideRules(sm, ph, wl, wd) ==
    IF AnyInvalid(sm, ph, wl, wd) THEN FALSE
    ELSE IF TankEmpty(wl) THEN FALSE
    ELSE IF PhOutOfRange(ph) THEN FALSE
    ELSE IF StandardCase(sm, wl, wd) THEN TRUE
    ELSE IF SpecialCase1(sm, wd) THEN TRUE
    ELSE AllOtherCases

\* DecideAction with the three values its get_state() calls read
DecideAction(r_sm, r_wl, r_wd) ==
    /\ sm_state' = SoilMoisture_get_state(r_sm)
    /\ ph_state' = OK
    /\ wl_state' = WaterLevel_get_state(r_wl)
    /\ wd_state' = WaterDetection_get_state(r_wd)
    /\ was_on' = on
    /\ decision' = DecideRules(sm_state', ph_state', wl_state', wd_state')

DecidePump_NoTurnOff(r_sm, r_wl, r_wd) ==
    /\ DecideAction(r_sm, r_wl, r_wd)
    /\ IF decision'
         THEN turn_on /\ pump' = TRUE
         ELSE UNCHANGED <<on, pin_level>> /\ pump' = FALSE

DecidePump(r_sm, r_wl, r_wd) ==
    /\ DecideAction(r_sm, r_wl, r_wd)
    /\ IF decision'
         THEN turn_on /\ pump' = TRUE
         ELSE turn_off /\ pump' = FALSE

TurnOffPump_Nothing == UNCHANGED <<on, pin_level>>

TurnOffPump == turn_off

\* PrintAll: reads the sensors and is_on() and prints them, changes nothing
PrintAll ==
    UNCHANGED <<sm_state, ph_state, wl_state, wd_state, decision, on,
                pin_level, was_on, pump>>

-----------------------------------------------------------------------------
(* The record kept of one earlier decision (any one: whether a decision is  *)
(* kept is a free choice), to compare later decisions with                 *)
NoRecord == [sm |-> INVALID_STATE, wl |-> INVALID_STATE, wd |-> INVALID_STATE,
             was_on |-> FALSE, result |-> FALSE, valid |-> FALSE]

ThisRecord == [sm |-> sm_state', wl |-> wl_state', wd |-> wd_state',
               was_on |-> on, result |-> decision', valid |-> TRUE]

-----------------------------------------------------------------------------
(* State after construction: ActionDecider ad; PumpDriver(pin) *)
Constructed ==
    /\ sensor = "none" /\ value = 0 /\ state = INVALID_STATE
    /\ sm_state = INVALID_STATE /\ ph_state = INVALID_STATE
    /\ wl_state = INVALID_STATE /\ wd_state = INVALID_STATE
    /\ decision = FALSE
    /\ on = FALSE /\ pin_level = "LOW" /\ cmds = <<>>
    /\ was_on = FALSE
    /\ last_call = "none"
    /\ pump = FALSE
    /\ pc = "setup"
    /\ seen = NoRecord

-----------------------------------------------------------------------------
(* Spec: the sketch, setup() then loop() forever *)

Init == Constructed

Setup ==
    /\ pc = "setup"
    /\ pc' = "decide"
    /\ UNCHANGED <<sensor, value, state, sm_state, ph_state, wl_state,
                   wd_state, decision, on, pin_level, cmds, was_on,
                   last_call, pump, seen>>

LoopDecidePump ==
    /\ pc = "decide"
    /\ \E r_sm \in SoilSamples, r_wl \in LevelSamples, r_wd \in DetectionSamples :
          DecidePump(r_sm, r_wl, r_wd)
    /\ last_call' = "DecidePump"
    /\ pc' = "print"
    /\ UNCHANGED <<sensor, value, state, cmds, seen>>

LoopPrintAll ==
    /\ pc = "print"
    /\ PrintAll
    /\ last_call' = "PrintAll"
    /\ pc' = IF pump THEN "pump_on_time" ELSE "pump_off_delay"
    /\ UNCHANGED <<sensor, value, state, cmds, seen>>

LoopTurnOffPump ==
    /\ pc = "pump_on_time"
    /\ TurnOffPump
    /\ last_call' = "TurnOffPump"
    /\ pc' = "after_water_delay"
    /\ UNCHANGED <<sensor, value, state, sm_state, ph_state, wl_state,
                   wd_state, decision, cmds, was_on, pump, seen>>

LoopAfterWaterDelay ==
    /\ pc = "after_water_delay"
    /\ pc' = "ready"
    /\ UNCHANGED <<sensor, value, state, sm_state, ph_state, wl_state,
                   wd_state, decision, on, pin_level, cmds, was_on,
                   last_call, pump, seen>>

LoopPumpOffDelay ==
    /\ pc = "pump_off_delay"
    /\ pc' = "ready"
    /\ UNCHANGED <<sensor, value, state, sm_state, ph_state, wl_state,
                   wd_state, decision, on, pin_level, cmds, was_on,
                   last_call, pump, seen>>

LoopReady ==
    /\ pc = "ready"
    /\ pc' = "decide"
    /\ UNCHANGED <<sensor, value, state, sm_state, ph_state, wl_state,
                   wd_state, decision, on, pin_level, cmds, was_on,
                   last_call, pump, seen>>

Next ==
    \/ Setup
    \/ LoopDecidePump
    \/ LoopPrintAll
    \/ LoopTurnOffPump
    \/ LoopAfterWaterDelay
    \/ LoopPumpOffDelay
    \/ LoopReady

Spec == Init /\ [][Next]_vars

-----------------------------------------------------------------------------
(* SpecDecider: the public methods of ActionDecider, called in any order *)

InitDecider == Constructed

CallDecideAction ==
    /\ \E r_sm \in SoilSamples, r_wl \in LevelSamples, r_wd \in DetectionSamples :
          DecideAction(r_sm, r_wl, r_wd)
    /\ last_call' = "DecideAction"
    /\ seen' \in (IF seen.valid THEN {seen} ELSE {seen, ThisRecord})
    /\ UNCHANGED <<sensor, value, state, on, pin_level, cmds, pump, pc>>

CallDecidePump ==
    /\ \E r_sm \in SoilSamples, r_wl \in LevelSamples, r_wd \in DetectionSamples :
          DecidePump(r_sm, r_wl, r_wd)
    /\ last_call' = "DecidePump"
    /\ seen' \in (IF seen.valid THEN {seen} ELSE {seen, ThisRecord})
    /\ UNCHANGED <<sensor, value, state, cmds, pc>>

CallTurnOffPump ==
    /\ TurnOffPump
    /\ last_call' = "TurnOffPump"
    /\ UNCHANGED <<sensor, value, state, sm_state, ph_state, wl_state,
                   wd_state, decision, cmds, was_on, pump, pc, seen>>

CallPrintAll ==
    /\ PrintAll
    /\ last_call' = "PrintAll"
    /\ UNCHANGED <<sensor, value, state, cmds, pc, seen>>

NextDecider ==
    \/ CallDecideAction
    \/ CallDecidePump
    \/ CallTurnOffPump
    \/ CallPrintAll

SpecDecider == InitDecider /\ [][NextDecider]_vars

-----------------------------------------------------------------------------
(* SpecPump: a PumpDriver commanded in any order, at most MaxCmds times *)

InitPump == Constructed

CallTurnOn ==
    /\ Len(cmds) < MaxCmds
    /\ turn_on
    /\ cmds' = Append(cmds, "turn_on")
    /\ UNCHANGED <<sensor, value, state, sm_state, ph_state, wl_state,
                   wd_state, decision, was_on, last_call, pump, pc, seen>>

CallTurnOff ==
    /\ Len(cmds) < MaxCmds
    /\ turn_off
    /\ cmds' = Append(cmds, "turn_off")
    /\ UNCHANGED <<sensor, value, state, sm_state, ph_state, wl_state,
                   wd_state, decision, was_on, last_call, pump, pc, seen>>

NextPump ==
    \/ CallTurnOn
    \/ CallTurnOff

SpecPump == InitPump /\ [][NextPump]_vars

-----------------------------------------------------------------------------
(* SpecClassify: each classifier applied to every raw value 0..MaxRaw *)

InitClassify ==
    /\ sensor = "none" /\ value \in 0..MaxRaw /\ state = INVALID_STATE
    /\ sm_state = INVALID_STATE /\ ph_state = INVALID_STATE
    /\ wl_state = INVALID_STATE /\ wd_state = INVALID_STATE
    /\ decision = FALSE
    /\ on = FALSE /\ pin_level = "LOW" /\ cmds = <<>>
    /\ was_on = FALSE
    /\ last_call = "none"
    /\ pump = FALSE
    /\ pc = "setup"
    /\ seen = NoRecord

SoilGetState ==
    /\ sensor = "none"
    /\ sensor' = "sm"
    /\ state' = SoilMoisture_get_state(value)
    /\ UNCHANGED <<value, sm_state, ph_state, wl_state, wd_state, decision,
                   on, pin_level, cmds, was_on, last_call, pump, pc, seen>>

LevelGetState ==
    /\ sensor = "none"
    /\ sensor' = "wl"
    /\ state' = WaterLevel_get_state(value)
    /\ UNCHANGED <<value, sm_state, ph_state, wl_state, wd_state, decision,
                   on, pin_level, cmds, was_on, last_call, pump, pc, seen>>

DetectionGetState ==
    /\ sensor = "none"
    /\ sensor' = "wd"
    /\ state' = WaterDetection_get_state(value)
    /\ UNCHANGED <<value, sm_state, ph_state, wl_state, wd_state, decision,
                   on, pin_level, cmds, was_on, last_call, pump, pc, seen>>

NextClassify ==
    \/ SoilGetState
    \/ LevelGetState
    \/ DetectionGetState

SpecClassify == InitClassify /\ [][NextClassify]_vars

-----------------------------------------------------------------------------
(* SpecRules: the rule cascade of DecideAction applied to every            *)
(* combination of values of its four locals                                *)

InitRules ==
    /\ sensor = "none" /\ value = 0 /\ state = INVALID_STATE
    /\ sm_state \in SensorStateLevel /\ ph_state \in SensorStateLevel
    /\ wl_state \in SensorStateLevel /\ wd_state \in SensorStateLevel
    /\ decision = FALSE
    /\ on = FALSE /\ pin_level = "LOW" /\ cmds = <<>>
    /\ was_on = FALSE
    /\ last_call = "none"
    /\ pump = FALSE
    /\ pc = "setup"
    /\ seen = NoRecord

EvalRules ==
    /\ last_call = "none"
    /\ decision' = DecideRules(sm_state, ph_state, wl_state, wd_state)
    /\ last_call' = "DecideAction"
    /\ UNCHANGED <<sensor, value, state, sm_state, ph_state, wl_state,
                   wd_state, on, pin_level, cmds, was_on, pump, pc, seen>>

NextRules == EvalRules

SpecRules == InitRules /\ [][NextRules]_vars

-----------------------------------------------------------------------------
(* Properties *)

Decided == last_call = "DecideAction"

\* C1: whenever any of the four states the cascade is given equals
\* INVALID_STATE, the decision is false, whatever the other states are.
C1_InvalidStateVeto ==
    (Decided /\ (\/ sm_state = INVALID_STATE
                 \/ ph_state = INVALID_STATE
                 \/ wl_state = INVALID_STATE
                 \/ wd_state = INVALID_STATE))
        => decision = FALSE

C1_Witness ==
    /\ Decided
    /\ sm_state = OK /\ ph_state = INVALID_STATE
    /\ wl_state = OK /\ wd_state = OK
    /\ decision = FALSE

\* C2: whenever the water-level state is TOO_LOW the decision is false, also
\* for bone-dry soil (TOO_LOW) with water detection OK.
C2_DryTankVeto ==
    (Decided /\ wl_state = TOO_LOW) => decision = FALSE

C2_Witness ==
    /\ Decided
    /\ sm_state = TOO_LOW /\ ph_state = OK
    /\ wl_state = TOO_LOW /\ wd_state = OK
    /\ decision = FALSE

\* C3: when no veto applies (no INVALID_STATE, water level not TOO_LOW, pH
\* neither TOO_LOW nor TOO_HIGH) the decision is true exactly when the
\* standard run condition or the bone-dry override holds.
C3_RunExactlyWhen ==
    (/\ Decided
     /\ INVALID_STATE \notin {sm_state, ph_state, wl_state, wd_state}
     /\ wl_state # TOO_LOW
     /\ ph_state \notin {TOO_LOW, TOO_HIGH})
        => (decision <=>
              \/ /\ wd_state = OK
                 /\ wl_state \in {OK, DANGER_HIGH, TOO_HIGH}
                 /\ sm_state \in {TOO_LOW, DANGER_LOW, OK, DANGER_HIGH}
              \/ /\ wd_state \in {OK, TOO_HIGH}
                 /\ sm_state = TOO_LOW)

C3_Witness ==
    /\ Decided
    /\ sm_state = TOO_LOW /\ ph_state = OK
    /\ wl_state = OK /\ wd_state = TOO_HIGH
    /\ decision = TRUE

\* C4: whenever the soil-moisture state is TOO_HIGH (soaking) the decision
\* is false, whatever the other states are.
C4_SoakingSoilOff ==
    (Decided /\ sm_state = TOO_HIGH) => decision = FALSE

C4_Witness ==
    /\ Decided
    /\ sm_state = TOO_HIGH /\ ph_state = OK
    /\ wl_state = OK /\ wd_state = OK
    /\ decision = FALSE

\* C5: SoilMoistureSensor::get_state maps raw <= 350 to TOO_HIGH, 351..450 to
\* DANGER_HIGH, 451..550 to OK, 551..650 to DANGER_LOW, 651..1023 to TOO_LOW
\* and every raw above 1023 to INVALID_STATE; within 0..1023 the level never
\* increases as the raw value increases.
C5_SoilLadder ==
    sensor = "sm" =>
        /\ (value <= 350) => state = TOO_HIGH
        /\ (value \in 351..450) => state = DANGER_HIGH
        /\ (value \in 451..550) => state = OK
        /\ (value \in 551..650) => state = DANGER_LOW
        /\ (value \in 651..1023) => state = TOO_LOW
        /\ (value > 1023) => state = INVALID_STATE
        /\ (value <= 1023) =>
              \A lower \in 0..value : SoilMoisture_get_state(lower) >= state

C5_Witness ==
    /\ sensor = "sm"
    /\ value = 2000
    /\ state = INVALID_STATE

\* C6: WaterLevelSensor::get_state returns only TOO_LOW, DANGER_LOW, OK or
\* INVALID_STATE (100 -> TOO_LOW, 300 -> DANGER_LOW, 1000 -> OK) and
\* WaterDetectionSensor::get_state only OK, TOO_HIGH or INVALID_STATE; a raw
\* value above the highest threshold gives INVALID_STATE.
C6_DeclaredSubsets ==
    /\ sensor = "wl" =>
          /\ state \in {TOO_LOW, DANGER_LOW, OK, INVALID_STATE}
          /\ (value = 100) => state = TOO_LOW
          /\ (value = 300) => state = DANGER_LOW
          /\ (value = 1000) => state = OK
          /\ (value > 1024) => state = INVALID_STATE
    /\ sensor = "wd" =>
          /\ state \in {OK, TOO_HIGH, INVALID_STATE}
          /\ (value > 1024) => state = INVALID_STATE

C6_Witness ==
    /\ sensor = "wl"
    /\ value = 1025
    /\ state = INVALID_STATE

\* C7: is_on() is false before any command and otherwise true exactly when
\* the last command was turn_on; the level last written to the pin equals
\* is_on(); this also holds when a command is repeated.
C7_PumpMirrorsLastCommand ==
    /\ is_on = (Len(cmds) > 0 /\ cmds[Len(cmds)] = "turn_on")
    /\ (pin_level = "HIGH") = is_on

C7_Witness ==
    /\ Len(cmds) >= 2
    /\ cmds[Len(cmds)] = "turn_on"
    /\ cmds[Len(cmds) - 1] = "turn_on"
    /\ is_on

\* C8: when DecidePump returns, its result is the value DecideAction
\* computed and is_on() (and the pin) equals it, whatever the pump state was
\* when it was called.
C8_DecidePumpActuates ==
    last_call = "DecidePump" =>
        /\ pump = decision
        /\ is_on = pump
        /\ (pin_level = "HIGH") = pump

C8_Witness ==
    /\ last_call = "DecidePump"
    /\ was_on
    /\ ~pump
    /\ ~is_on

\* C9: a decision depends only on the three states read in that call (pH is
\* OK): it equals any earlier decision taken on the same three states,
\* whatever the pump state was at either call.
C9_Stateless ==
    last_call \in {"DecideAction", "DecidePump"} =>
        /\ ph_state = OK
        /\ (/\ seen.valid
            /\ seen.sm = sm_state /\ seen.wl = wl_state /\ seen.wd = wd_state)
              => seen.result = decision

C9_Witness ==
    /\ last_call \in {"DecideAction", "DecidePump"}
    /\ seen.valid
    /\ seen.sm = sm_state /\ seen.wl = wl_state /\ seen.wd = wd_state
    /\ seen.was_on # was_on
    /\ seen.result = decision

\* C10: in loop() the pump is off whenever a new decision is about to be
\* taken; it is on only between a DecidePump that returned true and the
\* TurnOffPump of the same cycle, and never in a cycle that decided false.
C10_PumpOffBeforeNextDecision ==
    /\ pc \in {"setup", "decide", "ready", "after_water_delay",
               "pump_off_delay"} => ~is_on
    /\ is_on => (pump /\ pc \in {"print", "pump_on_time"})
    /\ (pc \in {"print", "pump_off_delay", "ready"} /\ ~pump) => ~is_on
    /\ pc = "after_water_delay" => last_call = "TurnOffPump"

C10_Witness ==
    /\ pc = "ready"
    /\ pump
    /\ last_call = "TurnOffPump"
    /\ ~is_on

====
